---- MODULE Spec2Model ----
(***************************************************************************)
(* PromptFlow (src/main.rs): a command-line run parses its arguments,      *)
(* resolves an API key through the key cache file, validates the prompt,   *)
(* appends the prompt to the history file, builds the system instruction   *)
(* from the five most recent history lines and calls the Gemini client.    *)
(*                                                                         *)
(* Text is a sequence of one-character strings.  A command-line flag is a  *)
(* one-element text whose only element is the flag's spelling, and the     *)
(* SYSTEM_INSTRUCTION literal is a one-element text as well.               *)
(***************************************************************************)
EXTENDS Integers, Sequences, FiniteSets, TLC

\* ------------------------------------------------------------------ bounds
\* longest command line that is enumerated (arguments after the program name)
MaxArgs == 3
\* a sequential run starts only while the history file has fewer lines
MaxHist == 6

\* ------------------------------------------------------- program constants
\* .take(5)
WINDOW == 5

\* Option<T> and "a file that may not exist" are sequences of length 0 or 1
None == <<>>
Some(x) == <<x>>
NoFile == <<>>
File(contents) == <<contents>>

Procs == {1, 2}
SeqProcs == {1}

SYSTEM_INSTRUCTION == <<"SYSTEM_INSTRUCTION">>
MODEL == "gemini-2.0-flash"

\* ------------------------------------------------------------ text helpers
IsWhitespace(c) == c \in {" ", "\n", "\t", "\r"}

RECURSIVE TrimStart(_)
TrimStart(s) ==
    IF s = <<>> THEN <<>>
    ELSE IF IsWhitespace(Head(s)) THEN TrimStart(Tail(s)) ELSE s

RECURSIVE TrimEnd(_)
TrimEnd(s) ==
    IF s = <<>> THEN <<>>
    ELSE IF IsWhitespace(s[Len(s)]) THEN TrimEnd(SubSeq(s, 1, Len(s) - 1)) ELSE s

\* str::trim
Trim(s) == TrimEnd(TrimStart(s))

\* position of the first line feed of s, 0 when there is none
FirstNewline(s) ==
    IF \E i \in 1..Len(s) : s[i] = "\n"
    THEN CHOOSE i \in 1..Len(s) : s[i] = "\n" /\ \A j \in 1..(i - 1) : s[j] # "\n"
    ELSE 0

\* a line that ended in "\r\n" loses the carriage return too
StripCR(l) ==
    IF l # <<>> /\ l[Len(l)] = "\r" THEN SubSeq(l, 1, Len(l) - 1) ELSE l

\* str::lines: split at line feeds; a final line with no terminator counts
\* when it is not empty
RECURSIVE Lines(_)
Lines(s) ==
    IF s = <<>> THEN <<>>
    ELSE LET i == FirstNewline(s) IN
         IF i = 0 THEN <<s>>
         ELSE <<StripCR(SubSeq(s, 1, i - 1))>> \o Lines(SubSeq(s, i + 1, Len(s)))

\* Iterator::rev
RECURSIVE Rev(_)
Rev(q) == IF q = <<>> THEN <<>> ELSE Rev(Tail(q)) \o <<Head(q)>>

\* Iterator::take
Take(q, n) == SubSeq(q, 1, IF Len(q) < n THEN Len(q) ELSE n)

\* [&str]::join
RECURSIVE Join(_, _)
Join(q, sep) ==
    IF q = <<>> THEN <<>>
    ELSE IF Len(q) = 1 THEN q[1]
    ELSE q[1] \o sep \o Join(Tail(q), sep)

\* ------------------------------------------------------------------ inputs
KEY_FLAGS == {<<"--key">>, <<"-k">>}
PROMPT_FLAGS == {<<"--prompt">>, <<"-p">>}

\* argument values: plain, padded with a blank, whitespace-only, empty and
\* one with an embedded line feed
Values == {<<"a">>, <<" ", "b">>, <<" ">>, <<>>, <<"a", "\n", "b">>}
Tokens == KEY_FLAGS \cup PROMPT_FLAGS \cup Values

\* the command lines that are enumerated: up to MaxArgs arguments, where a
\* flag is the last argument or is followed by a value (not by the spelling
\* of a flag)
Argvs ==
    {argv \in UNION {[1..n -> Tokens] : n \in 0..MaxArgs} :
        \A i \in 1..(Len(argv) - 1) :
            argv[i] \in KEY_FLAGS \cup PROMPT_FLAGS => argv[i + 1] \in Values}

\* what credentials::var("GENAI_API_KEY") can return: Err or Ok(value)
EnvVals == {None, Some(<<"e">>)}

\* ----------------------------------------------------------- main, 83..128
\* the argument loop from index i (1 is the first argument after the program
\* name), with the api_key and prompt found so far
RECURSIVE ParseFrom(_, _, _, _)
ParseFrom(argv, i, ak, pr) ==
    IF i > Len(argv) THEN [err |-> "", api_key |-> ak, prompt |-> pr]
    ELSE IF argv[i] \in KEY_FLAGS THEN
        IF i + 1 <= Len(argv)
        THEN ParseFrom(argv, i + 2, Some(argv[i + 1]), pr)
        ELSE [err |-> "Missing API key value", api_key |-> ak, prompt |-> pr]
    ELSE IF argv[i] \in PROMPT_FLAGS THEN
        IF i + 1 <= Len(argv)
        THEN ParseFrom(argv, i + 2, ak, Some(argv[i + 1]))
        ELSE [err |-> "Missing prompt value", api_key |-> ak, prompt |-> pr]
    ELSE ParseFrom(argv, i + 1, ak, IF pr = None THEN Some(argv[i]) ELSE pr)

ParseArgs(argv) ==
    IF Len(argv) + 1 < 2
    THEN [err |-> "Missing arguments", api_key |-> None, prompt |-> None]
    ELSE ParseFrom(argv, 1, None, None)

\* what the argument loop makes of the enumerated command lines
Parsed == {ParseArgs(argv) : argv \in Argvs}

\* ---------------------------------------------------------- main, 132..178
\* ResolveExisting with the missing credential replaced by an empty one
ResolveExistingEmptyKey(file, readOk, ak, env, writeOk) ==
    IF readOk /\ Trim(file[1]) # <<>>
    THEN [key |-> Some(Trim(file[1])), file |-> file, outcome |-> "",
          io |-> <<"key.read">>, failed |-> FALSE]
    ELSE IF ak # None
    THEN [key |-> ak, file |-> file, outcome |-> "",
          io |-> <<"key.read">>, failed |-> ~readOk]
    ELSE IF env # None
    THEN IF writeOk
         THEN [key |-> env, file |-> File(env[1]), outcome |-> "",
               io |-> <<"key.read", "key.write">>, failed |-> ~readOk]
         ELSE [key |-> None, file |-> file, outcome |-> "StorageError",
               io |-> <<"key.read", "key.write">>, failed |-> TRUE]
    ELSE [key |-> Some(<<>>), file |-> file, outcome |-> "",
          io |-> <<"key.read">>, failed |-> ~readOk]

\* the branch taken when temp_path.exists(): the cache wins when it reads
\* back non-blank; otherwise the argument is used as it is, or the
\* environment value is used and written to the cache
ResolveExisting(file, readOk, ak, env, writeOk) ==
    IF readOk /\ Trim(file[1]) # <<>>
    THEN [key |-> Some(Trim(file[1])), file |-> file, outcome |-> "",
          io |-> <<"key.read">>, failed |-> FALSE]
    ELSE IF ak # None
    THEN [key |-> ak, file |-> file, outcome |-> "",
          io |-> <<"key.read">>, failed |-> ~readOk]
    ELSE IF env # None
    THEN IF writeOk
         THEN [key |-> env, file |-> File(env[1]), outcome |-> "",
               io |-> <<"key.read", "key.write">>, failed |-> ~readOk]
         ELSE [key |-> None, file |-> file, outcome |-> "StorageError",
               io |-> <<"key.read", "key.write">>, failed |-> TRUE]
    ELSE [key |-> None, file |-> file, outcome |-> "Missing API key",
          io |-> <<"key.read">>, failed |-> ~readOk]

\* ResolveAbsent writing and returning the trimmed value
ResolveAbsentTrimmed(ak, env, writeOk) ==
    LET found == IF ak # None THEN ak ELSE env IN
    IF found # None
    THEN IF writeOk
         THEN [key |-> Some(Trim(found[1])), file |-> File(Trim(found[1])),
               outcome |-> "", io |-> <<"key.write">>, failed |-> FALSE]
         ELSE [key |-> None, file |-> NoFile, outcome |-> "StorageError",
               io |-> <<"key.write">>, failed |-> TRUE]
    ELSE [key |-> None, file |-> NoFile, outcome |-> "Missing API key",
          io |-> <<>>, failed |-> FALSE]

\* the branch taken when the cache file does not exist: the argument, else
\* the environment value, is written to the cache and used
ResolveAbsent(ak, env, writeOk) ==
    LET found == IF ak # None THEN ak ELSE env IN
    IF found # None
    THEN IF writeOk
         THEN [key |-> found, file |-> File(found[1]), outcome |-> "",
               io |-> <<"key.write">>, failed |-> FALSE]
         ELSE [key |-> None, file |-> NoFile, outcome |-> "StorageError",
               io |-> <<"key.write">>, failed |-> TRUE]
    ELSE [key |-> None, file |-> NoFile, outcome |-> "Missing API key",
          io |-> <<>>, failed |-> FALSE]

\* what the run saw in the cache file
CacheSeen(file, readOk) ==
    IF file = NoFile THEN "absent"
    ELSE IF ~readOk THEN "unreadable"
    ELSE IF Trim(file[1]) = <<>> THEN "blank" ELSE "valid"

\* ---------------------------------------------------------- main, 206..225
\* AppendPrompt forgetting what was read
AppendPromptOnly(history, prompt) == prompt \o <<"\n">>

\* history.push_str(&format!("{}\n", prompt))
AppendPrompt(history, prompt) == history \o prompt \o <<"\n">>

\* RecentWindow taking from the front, without the two reversals
RecentWindowOldest(history) == Take(Lines(history), WINDOW)

\* lines().rev().take(5).rev(), as a sequence of lines
RecentWindow(history) == Rev(Take(Rev(Lines(history)), WINDOW))

\* ... .join("\n")
RecentPrompts(history) == Join(RecentWindow(history), <<"\n">>)

BANNER ==
    <<"\n", "\n", "--------------------", "\n",
      "**Previous Generated Prompts:**", "\n">>

\* SystemInstruction without the banner
SystemInstructionNoBanner(recent_prompts) == SYSTEM_INSTRUCTION \o recent_prompts

\* format!("{}\n\n--------------------\n**Previous Generated Prompts:**\n{}", ..)
SystemInstruction(recent_prompts) == SYSTEM_INSTRUCTION \o BANNER \o recent_prompts

\* ------------------------------------------------------------------- state
VARIABLES
    keyFile,    \* the file temp_dir()/key: NoFile or File(contents)
    histFile,   \* the file temp_dir()/prompt_history
    run         \* per process: the locals of main and what the run did

vars == <<keyFile, histFile, run>>

\* a process that is not running
IdleRun ==
    [pc |-> "idle",
     api_key |-> None, prompt |-> None, key |-> None,
     history |-> <<>>, recent |-> <<>>, system_instruction |-> <<>>,
     outcome |-> "",
     \* observations of the run, not read by the program
     io |-> <<>>, ioFailed |-> FALSE, cacheSeen |-> "", env |-> None,
     histSeen |-> "", stale |-> FALSE,
     keyFile0 |-> NoFile, histFile0 |-> NoFile,
     calls |-> 0, sent |-> <<>>]

Init ==
    /\ keyFile = NoFile
    /\ histFile = NoFile
    /\ run = [p \in Procs |-> IdleRun]

Content(file) == IF file = NoFile THEN <<>> ELSE file[1]

\* main entered, r being what the argument loop (lines 83..128) made of the
\* command line
StartWith(p, r) ==
    /\ run[p].pc = "idle"
    /\ run' = [run EXCEPT ![p] =
            [IdleRun EXCEPT
                !.pc = IF r.err = "" THEN "key" ELSE "done",
                !.api_key = r.api_key,
                !.prompt = r.prompt,
                !.outcome = r.err,
                !.keyFile0 = keyFile,
                !.histFile0 = histFile]]
    /\ UNCHANGED <<keyFile, histFile>>

\* one run at a time
Start(p) ==
    /\ \A q \in Procs : run[q].pc = "idle"
    /\ Len(Lines(Content(histFile))) < MaxHist
    /\ \E r \in Parsed : StartWith(p, r)

\* lines 132..178; the client is built from the key on line 181
ResolveKey(p) ==
    /\ run[p].pc = "key"
    /\ \E readOk \in BOOLEAN, writeOk \in BOOLEAN, env \in EnvVals :
        LET r == IF keyFile # NoFile
                 THEN ResolveExisting(keyFile, readOk, run[p].api_key, env, writeOk)
                 ELSE ResolveAbsent(run[p].api_key, env, writeOk)
        IN
        /\ keyFile' = r.file
        /\ run' = [run EXCEPT ![p] =
                [@ EXCEPT
                    !.pc = IF r.outcome = "" THEN "prompt" ELSE "done",
                    !.api_key = None,
                    !.key = r.key,
                    !.outcome = r.outcome,
                    !.io = @ \o <<"key.exists">> \o r.io,
                    !.ioFailed = r.failed,
                    !.cacheSeen = CacheSeen(keyFile, readOk),
                    !.env = env]]
    /\ UNCHANGED histFile

\* lines 185..192
ValidatePrompt(p) ==
    /\ run[p].pc = "prompt"
    /\ IF run[p].prompt # None /\ Trim(run[p].prompt[1]) # <<>>
       THEN run' = [run EXCEPT ![p].pc = "hread",
                               ![p].prompt = Some(Trim(run[p].prompt[1]))]
       ELSE run' = [run EXCEPT ![p].pc = "done",
                               ![p].outcome = "Empty prompt"]
    /\ UNCHANGED <<keyFile, histFile>>

\* lines 196..204: a missing file and a failed read both give ""
ReadHistory(p) ==
    /\ run[p].pc = "hread"
    /\ \E readOk \in BOOLEAN :
        run' = [run EXCEPT
            ![p].pc = "hwrite",
            ![p].history = IF histFile # NoFile /\ readOk THEN histFile[1] ELSE <<>>,
            ![p].io = @ \o <<"history.exists">>
                        \o (IF histFile # NoFile THEN <<"history.read">> ELSE <<>>),
            ![p].ioFailed = @ \/ (histFile # NoFile /\ ~readOk),
            ![p].histSeen = IF histFile = NoFile THEN "missing"
                            ELSE IF readOk THEN "ok" ELSE "failed"]
    /\ UNCHANGED <<keyFile, histFile>>

\* lines 207..208; a run that read the file before this write and has not
\* written yet now holds a stale copy
WriteHistory(p) ==
    /\ run[p].pc = "hwrite"
    /\ \E writeOk \in BOOLEAN :
        LET h == AppendPrompt(run[p].history, run[p].prompt[1]) IN
        IF writeOk
        THEN /\ histFile' = File(h)
             /\ run' = [q \in Procs |->
                    IF q = p
                    THEN [run[q] EXCEPT !.pc = "call", !.history = h,
                                        !.io = @ \o <<"history.write">>]
                    ELSE IF run[q].pc = "hwrite"
                    THEN [run[q] EXCEPT !.stale = TRUE]
                    ELSE run[q]]
        ELSE /\ histFile' = histFile
             /\ run' = [run EXCEPT ![p].pc = "done", ![p].history = h,
                                    ![p].outcome = "StorageError",
                                    ![p].io = @ \o <<"history.write">>,
                                    ![p].ioFailed = TRUE]
    /\ UNCHANGED keyFile

\* lines 211..236: the window, the system instruction and the chat call,
\* which returns a text or an error
Generate(p) ==
    /\ run[p].pc = "call"
    /\ \E ok \in BOOLEAN :
        LET recent == RecentPrompts(run[p].history)
            instr == SystemInstruction(recent)
        IN run' = [run EXCEPT
            ![p].pc = "done",
            ![p].recent = recent,
            ![p].system_instruction = instr,
            ![p].calls = @ + 1,
            ![p].sent = <<MODEL, instr, run[p].prompt[1]>>,
            ![p].outcome = IF ok THEN "Ok" ELSE "RemoteError"]
    /\ UNCHANGED <<keyFile, histFile>>

\* the process exits
Finish(p) ==
    /\ run[p].pc = "done"
    /\ run' = [run EXCEPT ![p] = IdleRun]
    /\ UNCHANGED <<keyFile, histFile>>

Next ==
    \E p \in SeqProcs :
        \/ Start(p)
        \/ ResolveKey(p)
        \/ ValidatePrompt(p)
        \/ ReadHistory(p)
        \/ WriteHistory(p)
        \/ Generate(p)
        \/ Finish(p)

Spec == Init /\ [][Next]_vars

\* two processes started once each, with a positional prompt, in any
\* interleaving of their steps
ConcArgvs == {<<v>> : v \in Values}

StartConc(p) == \E argv \in ConcArgvs : StartWith(p, ParseArgs(argv))

NextConc ==
    \E p \in Procs :
        \/ StartConc(p)
        \/ ResolveKey(p)
        \/ ValidatePrompt(p)
        \/ ReadHistory(p)
        \/ WriteHistory(p)
        \/ Generate(p)

SpecConc == Init /\ [][NextConc]_vars

\* ------------------------------------------------------------ vocabulary
PARSE_ERRORS == {"Missing arguments", "Missing API key value", "Missing prompt value"}

\* the prompt of the run is absent, empty or whitespace-only
BlankPrompt(p) == run[p].prompt = None \/ Trim(run[p].prompt[1]) = <<>>

\* the key step of the run is over
KeyStepDone(p) == run[p].cacheSeen # ""

\* the run has written the history file
Wrote(p) == run[p].pc = "call" \/ (run[p].pc = "done" /\ run[p].calls = 1)

\* sub occurs in text
Contains(text, sub) ==
    \E i \in 1..(Len(text) - Len(sub) + 1) : SubSeq(text, i, i + Len(sub) - 1) = sub

EndsWith(text, sub) ==
    /\ Len(sub) <= Len(text)
    /\ SubSeq(text, Len(text) - Len(sub) + 1, Len(text)) = sub

Min(a, b) == IF a < b THEN a ELSE b

\* the last k elements of q
LastK(q, k) == SubSeq(q, Len(q) - k + 1, Len(q))

\* the reads and writes among the file operations of a run (the existence
\* checks left out)
FileOps(io) ==
    SelectSeq(io, LAMBDA op : op \in {"key.read", "key.write",
                                      "history.read", "history.write"})

HasNewline(text) == \E i \in 1..Len(text) : text[i] = "\n"

\* ------------------------------------------------------------------ claims

\* C1: a run whose prompt is absent, empty or whitespace-only has, at every
\* point up to and including its end, read and written neither the key
\* cache file nor the history file (stated for the runs in which no file
\* operation failed).
C1_BlankPromptBeforeFileIO ==
    \A p \in SeqProcs :
        ( /\ run[p].pc # "idle" /\ run[p].outcome \notin PARSE_ERRORS
          /\ BlankPrompt(p) /\ ~run[p].ioFailed )
            => FileOps(run[p].io) = <<>>

\* C2: a run that starts with a key cache file whose trimmed contents are
\* non-blank uses exactly the trimmed contents as its credential and leaves
\* the cache file as it was.
C2_CachePriority ==
    \A p \in SeqProcs :
        (KeyStepDone(p) /\ run[p].keyFile0 # NoFile /\ Trim(run[p].keyFile0[1]) # <<>>)
            => /\ run[p].key = Some(Trim(run[p].keyFile0[1]))
               /\ keyFile = run[p].keyFile0

\* C3: a run that finds the key cache file blank behaves as one that finds it
\* absent: it fails the same way, or it resolves a credential and leaves
\* that credential, raw, in the cache file.
C3_BlankCacheAsAbsent ==
    \A p \in SeqProcs :
        (KeyStepDone(p) /\ run[p].cacheSeen = "blank")
            => IF run[p].key # None
               THEN keyFile = File(run[p].key[1])
               ELSE run[p].outcome \in {"Missing API key", "StorageError"}
                    /\ keyFile = run[p].keyFile0

\* C4: after the append, the window sent on has min(5, n) lines, n being the
\* number of lines of the history file, those are the file's last min(5, n)
\* lines in file order, and the last of them is the keyword just appended
\* whenever that keyword has no embedded line feed.
C4_RecentWindow ==
    \A p \in SeqProcs :
        (run[p].pc = "done" /\ run[p].calls = 1)
            => LET all == Lines(Content(histFile))
                   k == Min(WINDOW, Len(all))
                   got == Lines(run[p].recent)
               IN /\ Len(got) = k
                  /\ got = LastK(all, k)
                  /\ run[p].recent = Join(LastK(all, k), <<"\n">>)
                  /\ ~HasNewline(run[p].prompt[1]) => got[k] = run[p].prompt[1]

\* a window of five lines out of a longer history whose oldest line differs
\* from the window's oldest
C4_Witness ==
    \E p \in SeqProcs :
        /\ run[p].pc = "done" /\ run[p].calls = 1
        /\ Len(Lines(Content(histFile))) = WINDOW + 1
        /\ Len(Lines(run[p].recent)) = WINDOW
        /\ Lines(Content(histFile))[1] # Lines(run[p].recent)[1]
        /\ ~HasNewline(run[p].prompt[1])

\* C5: the history file only ever changes by one run appending its keyword
\* and a line feed to what the file held.
C5_AppendOnly ==
    [][ \/ histFile' = histFile
        \/ \E p \in SeqProcs :
              /\ run[p].pc = "hwrite"
              /\ histFile' =
                    File(Content(histFile) \o run[p].prompt[1] \o <<"\n">>)
      ]_vars

\* C6: a run in which a read or a write of either file failed has ended with
\* the storage error.
C6_StorageFailuresTerminal ==
    \A p \in SeqProcs :
        run[p].ioFailed => run[p].pc = "done" /\ run[p].outcome = "StorageError"

\* C7: when the key step finds no cache file, is given a non-blank --key
\* value and resolves a credential, the credential is that value and the
\* cache file holds exactly that value, whatever the environment holds.
C7_ExplicitKeyPersisted ==
    [][ \A p \in SeqProcs :
            ( /\ run[p].pc = "key" /\ run'[p].pc = "prompt"
              /\ keyFile = NoFile
              /\ run[p].api_key # None /\ Trim(run[p].api_key[1]) # <<>> )
            => /\ run'[p].key = run[p].api_key
               /\ keyFile' = File(run[p].api_key[1])
      ]_vars

\* a padded explicit key, kept raw, with the environment variable set
C7_Witness ==
    \E p \in SeqProcs :
        /\ run[p].cacheSeen = "absent"
        /\ run[p].env # None
        /\ run[p].key = Some(<<" ", "b">>)
        /\ keyFile = File(<<" ", "b">>)

\* C8: when the key step finds the cache file absent or blank, no --key was
\* given and the environment variable is not available, the run ends there
\* with the missing-credential error; a run that ended so left both files
\* as it found them and made no call.
C8_MissingCredential ==
    /\ [][ \A p \in SeqProcs :
              ( /\ run[p].pc = "key" /\ run'[p].pc # "key"
                /\ (keyFile = NoFile \/ Trim(keyFile[1]) = <<>>)
                /\ run[p].api_key = None
                /\ run'[p].env = None )
              => /\ run'[p].pc = "done"
                 /\ run'[p].outcome = "Missing API key"
                 /\ keyFile' = keyFile /\ histFile' = histFile
         ]_vars
    /\ [](\A p \in SeqProcs :
              run[p].outcome = "Missing API key"
                  => /\ run[p].pc = "done"
                     /\ keyFile = run[p].keyFile0
                     /\ histFile = run[p].histFile0
                     /\ run[p].calls = 0)

\* the error reached from a blank cache file
C8_Witness ==
    \E p \in SeqProcs :
        /\ run[p].outcome = "Missing API key"
        /\ run[p].cacheSeen = "blank"
        /\ histFile # NoFile

C10_CallOrdering ==
    \A p \in SeqProcs :
        /\ run[p].calls <= 1
        /\ run[p].outcome \in PARSE_ERRORS \cup
               {"Missing API key", "Empty prompt", "StorageError"}
             => run[p].calls = 0
        /\ run[p].calls = 1
             => LET all == Lines(Content(histFile))
                    w == Join(LastK(all, Min(WINDOW, Len(all))), <<"\n">>)
                    kw == run[p].prompt[1]
                IN /\ run[p].key # None
                   /\ kw # <<>> /\ Trim(kw) = kw
                   /\ EndsWith(Content(histFile), kw \o <<"\n">>)
                   /\ run[p].io[Len(run[p].io)] = "history.write"
                   /\ run[p].sent = <<MODEL, SYSTEM_INSTRUCTION \o BANNER \o w, kw>>
                   /\ EndsWith(run[p].sent[2], kw)

\* a call made with a history longer than the window
C10_Witness ==
    \E p \in SeqProcs :
        /\ run[p].calls = 1
        /\ run[p].outcome = "Ok"
        /\ Len(Lines(Content(histFile))) > WINDOW
        /\ run[p].key = Some(<<"e">>)

====
